---- MODULE Spec2Model ----
(***************************************************************************)
(* Model of fixed-income-app1.py: the mock market-data generator           *)
(* (MockDataGenerator.generate_bonds, generate_historical_data), the       *)
(* analytics engine (AnalyticsEngine.generate_yield_curve,                 *)
(* calculate_spread_change), the /api/bonds handler get_bonds writing the  *)
(* bonds table through DatabaseManager.get_db, the /api/stream feed and    *)
(* the /api/export/bonds handler export_bonds.                             *)
(*                                                                         *)
(* Real numbers (Python floats) are fixed-point integers in units of       *)
(* 1/Scale = 0.0001, so 3.5 is 35000.  A decimal value that lies exactly   *)
(* half-way between two roundings is, as a binary float, a hair above or   *)
(* below the tie (or exactly on it and rounded half-to-even), so round()   *)
(* of a tie is modelled as either neighbour: RoundSet returns both.        *)
(* Strings are sequences of one-character strings.  Dates are day numbers  *)
(* since 1970-01-01 (proleptic Gregorian calendar).                        *)
(***************************************************************************)
EXTENDS Integers, Sequences, FiniteSets, TLC

VARIABLES
    pc,           \* position of the caller: "idle" or the function it is in
    now,          \* datetime.now(), as a day number
    calls,        \* caller: number of calls that have returned
    count,        \* generate_bonds: argument
    base_date,    \* generate_bonds: base_date
    i,            \* generate_bonds: number of loop iterations done
    locals,       \* generate_bonds: maturity_years, sector, rating, yield_value of the last iteration
    bonds,        \* generate_bonds: the list being built
    result,       \* value returned by the last generate_bonds call
    prev_result,  \* caller: value returned by the generate_bonds call before that
    prev_count,   \* caller: count argument of the generate_bonds call before that
    isin,         \* generate_historical_data: argument
    days,         \* generate_historical_data: argument
    dates,        \* generate_historical_data: pd.date_range(...)
    k,            \* generate_historical_data: number of dates consumed
    base_yield,   \* generate_historical_data: walk value (unrounded)
    base_spread,  \* generate_historical_data: walk value
    data,         \* generate_historical_data: the list being built
    currency,     \* generate_yield_curve: argument
    base_rates,   \* generate_yield_curve: base_rates
    curve,        \* generate_yield_curve: returned dict
    current_spread,     \* calculate_spread_change: argument
    historical_spread,  \* calculate_spread_change: argument
    returned_change,    \* calculate_spread_change: returned value
    table,        \* bonds.db: the committed rows of table bonds, by isin
    writer,       \* bonds.db: the request whose connection holds the write lock, 0 if none
    pending,      \* bonds.db: the rows as the writer's open transaction sees them
    req,          \* get_bonds: per worker thread, the request it is serving
    started,      \* number of get_bonds requests received
    stream_pc,    \* stream_updates: position of generate(): "update", "yielded",
                  \* "sleep" or "closed"
    sleeps,       \* stream_updates: number of time.sleep(5) calls that returned
    clock,        \* stream_updates: seconds since the feed was started
    feed,         \* stream_updates: the updates yielded so far
    export        \* export_bonds: position, bonds, rows handed to the csv writer, response

vars == <<pc, now, calls, count, base_date, i, locals, bonds, result, prev_result,
          prev_count, isin, days, dates, k, base_yield, base_spread, data,
          currency, base_rates, curve,
          current_spread, historical_spread, returned_change,
          table, writer, pending, req, started, stream_pc, sleeps, clock, feed,
          export>>

bondVars == <<count, base_date, i, locals, bonds, result, prev_result, prev_count>>
histVars == <<isin, days, dates, k, base_yield, base_spread, data>>
curveVars == <<currency, base_rates, curve>>
spreadVars == <<current_spread, historical_spread, returned_change>>

\* the state outside the two generators and the yield curve
dbVars == <<table, writer, pending, req, started>>
streamVars == <<stream_pc, sleeps, clock, feed>>
exportVars == <<export>>
otherVars == <<spreadVars, dbVars, streamVars, exportVars>>

-----------------------------------------------------------------------------
(* Bounds of the model *)

MaxCount == 2         \* largest count passed to generate_bonds under Spec
MaxBatch == 1         \* largest count passed to generate_bonds under SpecRecord
MaxDays == 3          \* largest days passed to generate_historical_data
MaxWalkDays == 27     \* largest days passed to generate_historical_data under SpecWalk
MaxRequests == 3      \* number of get_bonds requests served one after the other
MaxEmissions == 3     \* number of updates of the /api/stream feed followed
NumWorkers == 2       \* number of server threads handling get_bonds requests at the same time
MaxSpread == 4        \* calculate_spread_change: arguments range over -MaxSpread..MaxSpread and 80, 100, 130
NoiseSteps == 3       \* random.uniform(a, b) is sampled at NoiseSteps + 1 points of [a, b]
IntSteps == 3         \* random.randint(a, b) is sampled at IntSteps + 1 points of a..b where it is sampled
WalkSteps == 3        \* yield_change sampled at WalkSteps + 1 points of [-0.05, 0.05]

-----------------------------------------------------------------------------
(* Numbers *)

Scale == 10^4

\* n + 1 sample points of the interval [lo, hi], both ends included
Grid(lo, hi, n) == { lo + ((j * (hi - lo)) \div n) : j \in 0..n }

Pow10(n) == 10^n

\* round(x, ndigits) returning x as it is
RoundSet_Unrounded(x, ndigits) == {x}

\* round(x, ndigits) of a float x: the nearest multiple of 10^-ndigits; both
\* neighbours when x is a decimal tie
RoundSet(x, ndigits) ==
    LET step == Scale \div Pow10(ndigits)
        lo   == (x \div step) * step
        r    == x - lo
    IN  IF 2 * r < step THEN {lo}
        ELSE IF 2 * r > step THEN {lo + step}
        ELSE {lo, lo + step}

-----------------------------------------------------------------------------
(* Strings *)

Digits == <<"0", "1", "2", "3", "4", "5", "6", "7", "8", "9">>
LowerCase == <<"a", "b", "c", "d", "e", "f", "g", "h", "i", "j", "k", "l", "m",
               "n", "o", "p", "q", "r", "s", "t", "u", "v", "w", "x", "y", "z">>
UpperCase == <<"A", "B", "C", "D", "E", "F", "G", "H", "I", "J", "K", "L", "M",
               "N", "O", "P", "Q", "R", "S", "T", "U", "V", "W", "X", "Y", "Z">>

\* str(n) for an integer n >= 0
RECURSIVE Str(_)
Str(n) == IF n < 10 THEN <<Digits[n + 1]>>
          ELSE Str(n \div 10) \o <<Digits[(n % 10) + 1]>>

\* s.zfill(width)
RECURSIVE ZFill(_, _)
ZFill(s, width) == IF Len(s) >= width THEN s ELSE ZFill(<<"0">> \o s, width)

\* s.upper()
Upper(s) ==
    [j \in 1..Len(s) |->
        IF \E a \in 1..Len(LowerCase) : LowerCase[a] = s[j]
        THEN UpperCase[CHOOSE a \in 1..Len(LowerCase) : LowerCase[a] = s[j]]
        ELSE s[j]]

\* s[:n]
Prefix(s, n) == SubSeq(s, 1, IF Len(s) < n THEN Len(s) ELSE n)

\* sub in s
Contains(sub, s) ==
    \E a \in 0..(Len(s) - Len(sub)) : SubSeq(s, a + 1, a + Len(sub)) = sub

\* str(x) of a non-negative float x that round(_, 2) returned: the integer
\* part, a point, and one or two decimals (Python prints 3.5 and 3.0, not 3.50)
FloatStr2(x) ==
    LET cents == x \div (Scale \div 100)
        whole == cents \div 100
        frac  == cents % 100
    IN  Str(whole) \o <<".">> \o
        (IF frac % 10 = 0 THEN Str(frac \div 10) ELSE ZFill(Str(frac), 2))

-----------------------------------------------------------------------------
(* Dates *)

\* day number of the civil date y-m-d
DaysFromCivil(y, m, d) ==
    LET yy  == IF m <= 2 THEN y - 1 ELSE y
        era == yy \div 400
        yoe == yy - era * 400
        mp  == IF m > 2 THEN m - 3 ELSE m + 9
        doy == ((153 * mp + 2) \div 5) + d - 1
        doe == yoe * 365 + (yoe \div 4) - (yoe \div 100) + doy
    IN  era * 146097 + doe - 719468

\* civil date <<y, m, d>> of a day number
CivilFromDays(z) ==
    LET zz  == z + 719468
        era == zz \div 146097
        doe == zz - era * 146097
        yoe == (doe - (doe \div 1460) + (doe \div 36524) - (doe \div 146096)) \div 365
        doy == doe - (365 * yoe + (yoe \div 4) - (yoe \div 100))
        mp  == (5 * doy + 2) \div 153
        d   == doy - ((153 * mp + 2) \div 5) + 1
        m   == IF mp < 10 THEN mp + 3 ELSE mp - 9
        y   == yoe + era * 400
    IN  <<IF m <= 2 THEN y + 1 ELSE y, m, d>>

\* date.year
YearOf(z) == CivilFromDays(z)[1]

\* date.strftime("%Y-%m-%d")
StrfDate(z) ==
    LET c == CivilFromDays(z)
    IN  ZFill(Str(c[1]), 4) \o <<"-">> \o ZFill(Str(c[2]), 2) \o <<"-">> \o ZFill(Str(c[3]), 2)

\* the values datetime.now() takes in the model
NowSamples == { DaysFromCivil(2024, 2, 29), DaysFromCivil(2026, 10, 29) }

-----------------------------------------------------------------------------
(* MockDataGenerator: class constants *)

SECTORS == <<
    <<"G", "o", "v", "e", "r", "n", "m", "e", "n", "t">>,
    <<"C", "o", "r", "p", "o", "r", "a", "t", "e", " ", "I", "G">>,
    <<"C", "o", "r", "p", "o", "r", "a", "t", "e", " ", "H", "Y">>,
    <<"M", "u", "n", "i", "c", "i", "p", "a", "l">>,
    <<"A", "g", "e", "n", "c", "y">>,
    <<"S", "o", "v", "e", "r", "e", "i", "g", "n">> >>

RATINGS == <<
    <<"A", "A", "A">>,
    <<"A", "A", "+">>,
    <<"A", "A">>,
    <<"A", "A", "-">>,
    <<"A", "+">>,
    <<"A">>,
    <<"A", "-">>,
    <<"B", "B", "B", "+">>,
    <<"B", "B", "B">>,
    <<"B", "B", "B", "-">> >>

CURRENCIES == <<
    <<"U", "S", "D">>,
    <<"E", "U", "R">>,
    <<"G", "B", "P">>,
    <<"J", "P", "Y">>,
    <<"C", "H", "F">> >>

\* the list literal passed to random.choice for issue_size, in millions
\* (500000000, 1000000000, 2000000000, 5000000000)
ISSUE_SIZES == <<500, 1000, 2000, 5000>>

Range(s) == { s[j] : j \in 1..Len(s) }

\* the value of a variable that has not been assigned yet
NoValue == "none"

-----------------------------------------------------------------------------
(* MockDataGenerator.generate_bonds *)

\* Premium with the ratings compared for equality instead of by substring
Premium_ExactMatch(rating) ==
    IF rating = <<"B", "B", "B">> THEN (3 * Scale) \div 2
    ELSE IF rating = <<"A">> THEN Scale \div 2
    ELSE 0

\* the rating-dependent premium added to base_yield
Premium(rating) ==
    IF Contains(<<"B", "B", "B">>, rating) THEN (3 * Scale) \div 2
    ELSE IF Contains(<<"A">>, rating) THEN Scale \div 2
    ELSE 0

\* base_yield after the rating adjustment
BaseYield(maturity_years, rating) ==
    2 * Scale + maturity_years * (Scale \div 10) + Premium(rating)

\* round(base_yield + random.uniform(-0.5, 0.5), 2)
YieldValues(maturity_years, rating, noise) ==
    RoundSet(BaseYield(maturity_years, rating) + noise, 2)

\* round(maturity_years * 0.85 + random.uniform(-1, 1), 1)
Durations(maturity_years, noise) ==
    RoundSet(maturity_years * ((85 * Scale) \div 100) + noise, 1)

\* 100 - (yield_value - 3) * 5 + random.uniform(-2, 2)
BondPrice(yield_value, noise) ==
    100 * Scale - (yield_value - 3 * Scale) * 5 + noise

\* Isin with the index counted from one
Isin_OneBased(idx) == <<"X", "S">> \o ZFill(Str(idx + 1), 10)

\* f"XS{str(i).zfill(10)}"
Isin(idx) == <<"X", "S">> \o ZFill(Str(idx), 10)

\* f"{sector[:3].upper()} {round(random.uniform(1, 6), 2)}% {maturity_date.year}"
Ticker(sector, coupon_shown, maturity_date) ==
    Upper(Prefix(sector, 3)) \o <<" ">> \o FloatStr2(coupon_shown) \o <<"%", " ">>
        \o Str(YearOf(maturity_date))

\* MaturityDate with years of 366 days
MaturityDate_LongYears(bd, maturity_years) == bd + 366 * maturity_years

\* base_date + timedelta(days=365 * maturity_years)
MaturityDate(bd, maturity_years) == bd + 365 * maturity_years

\* The Bond objects one loop iteration can build for index idx from the random
\* draws d; more than one only where a rounding is a tie.
BondsFor(idx, bd, d) ==
    { [ isin        |-> Isin(idx),
        ticker      |-> Ticker(d.sector, tc, MaturityDate(bd, d.maturity_years)),
        coupon      |-> c,
        maturity    |-> StrfDate(MaturityDate(bd, d.maturity_years)),
        yield_value |-> yv,
        spread      |-> d.spread,
        duration    |-> du,
        rating      |-> d.rating,
        sector      |-> d.sector,
        currency    |-> d.currency,
        price       |-> BondPrice(yv, d.price_noise),
        issue_size  |-> d.issue_size ] :
      yv \in YieldValues(d.maturity_years, d.rating, d.yield_noise),
      tc \in RoundSet(d.ticker_coupon, 2),
      c  \in RoundSet(d.coupon, 2),
      du \in Durations(d.maturity_years, d.duration_noise) }

\* The random draws of one loop iteration, in the order the code makes them.
\* uniform() draws are in units of 1/Scale.  MID_DRAWS: every draw inside its
\* range, and no rounding of it a tie.
MID_DRAWS ==
    [ maturity_years |-> 15,
      sector         |-> SECTORS[1],
      rating         |-> RATINGS[1],
      yield_noise    |-> 0,
      ticker_coupon  |-> (7 * Scale) \div 2,
      coupon         |-> (7 * Scale) \div 2,
      spread         |-> 155,
      duration_noise |-> Scale \div 8,
      currency       |-> CURRENCIES[1],
      price_noise    |-> 0,
      issue_size     |-> ISSUE_SIZES[2] ]

\* every draw at the low end of its range, and every draw at the high end
LOW_DRAWS ==
    [ maturity_years |-> 1,
      sector         |-> SECTORS[1],
      rating         |-> RATINGS[1],
      yield_noise    |-> 0 - Scale \div 2,
      ticker_coupon  |-> Scale,
      coupon         |-> Scale,
      spread         |-> 10,
      duration_noise |-> 0 - Scale,
      currency       |-> CURRENCIES[1],
      price_noise    |-> 0 - 2 * Scale,
      issue_size     |-> ISSUE_SIZES[1] ]

HIGH_DRAWS ==
    [ maturity_years |-> 30,
      sector         |-> SECTORS[Len(SECTORS)],
      rating         |-> RATINGS[Len(RATINGS)],
      yield_noise    |-> Scale \div 2,
      ticker_coupon  |-> 6 * Scale,
      coupon         |-> 6 * Scale,
      spread         |-> 300,
      duration_noise |-> Scale,
      currency       |-> CURRENCIES[Len(CURRENCIES)],
      price_noise    |-> 2 * Scale,
      issue_size     |-> ISSUE_SIZES[Len(ISSUE_SIZES)] ]

\* Draws of the whole-batch specification: the three above
CoarseDraws == { LOW_DRAWS, MID_DRAWS, HIGH_DRAWS }

\* Draws of the per-record specification: every group of draws that one field
\* of the record depends on is varied over its range, the other draws held at
\* MID_DRAWS.
YieldDraws ==
    { [MID_DRAWS EXCEPT !.maturity_years = m, !.rating = r, !.yield_noise = n] :
        m \in Grid(1, 30, IntSteps), r \in Range(RATINGS),
        n \in Grid(0 - Scale \div 2, Scale \div 2, NoiseSteps) }

DurationDraws ==
    { [MID_DRAWS EXCEPT !.maturity_years = m, !.duration_noise = n] :
        m \in Grid(1, 30, IntSteps), n \in Grid(0 - Scale, Scale, NoiseSteps) }

LabelDraws ==
    { [MID_DRAWS EXCEPT !.sector = s] : s \in Range(SECTORS) }
    \cup { [MID_DRAWS EXCEPT !.currency = c] : c \in Range(CURRENCIES) }
    \cup { [MID_DRAWS EXCEPT !.issue_size = z] : z \in Range(ISSUE_SIZES) }

SpreadDraws ==
    { [MID_DRAWS EXCEPT !.spread = s] : s \in Grid(10, 300, IntSteps) }

CouponDraws ==
    { [MID_DRAWS EXCEPT !.ticker_coupon = t, !.coupon = c] :
        t \in Grid(Scale, 6 * Scale, NoiseSteps), c \in Grid(Scale, 6 * Scale, NoiseSteps) }

PriceDraws ==
    { [MID_DRAWS EXCEPT !.yield_noise = n, !.price_noise = p] :
        n \in Grid(0 - Scale \div 2, Scale \div 2, NoiseSteps),
        p \in Grid(0 - 2 * Scale, 2 * Scale, NoiseSteps) }

FineDraws ==
    YieldDraws \cup DurationDraws \cup LabelDraws \cup SpreadDraws
        \cup CouponDraws \cup PriceDraws \cup { LOW_DRAWS, HIGH_DRAWS }

\* Draws that vary the noise of yield_value alone
YieldNoiseDraws ==
    { [MID_DRAWS EXCEPT !.yield_noise = n] :
        n \in Grid(0 - Scale \div 2, Scale \div 2, NoiseSteps) }

\* def generate_bonds(count): bonds = []; base_date = datetime.now()
generate_bonds_call(maxCount) ==
    /\ pc = "idle"
    /\ \E c \in (0 - 1)..maxCount : count' = c
    /\ pc' = "generate_bonds"
    /\ base_date' = now
    /\ i' = 0
    /\ bonds' = <<>>
    /\ locals' = NoValue
    /\ prev_count' = count
    /\ UNCHANGED <<now, calls, result, prev_result>>
    /\ UNCHANGED <<histVars, curveVars, otherVars>>

\* generate_bonds_step with the loop running for i in range(count + 1)
generate_bonds_step_OffByOne(draws) ==
    /\ pc = "generate_bonds"
    /\ i <= count
    /\ \E d \in draws : \E bond \in BondsFor(i, base_date, d) :
        /\ bonds' = Append(bonds, bond)
        /\ locals' = [ maturity_years |-> d.maturity_years,
                       sector         |-> d.sector,
                       rating         |-> d.rating,
                       yield_value    |-> bond.yield_value ]
    /\ i' = i + 1
    /\ UNCHANGED <<pc, now, calls, count, base_date, result, prev_result, prev_count>>
    /\ UNCHANGED <<histVars, curveVars, otherVars>>

\* one iteration of "for i in range(count)": the draws, the Bond, the append
generate_bonds_step(draws) ==
    /\ pc = "generate_bonds"
    /\ i < count
    /\ \E d \in draws : \E bond \in BondsFor(i, base_date, d) :
        /\ bonds' = Append(bonds, bond)
        /\ locals' = [ maturity_years |-> d.maturity_years,
                       sector         |-> d.sector,
                       rating         |-> d.rating,
                       yield_value    |-> bond.yield_value ]
    /\ i' = i + 1
    /\ UNCHANGED <<pc, now, calls, count, base_date, result, prev_result, prev_count>>
    /\ UNCHANGED <<histVars, curveVars, otherVars>>

\* range(count) is exhausted: return bonds
generate_bonds_return ==
    /\ pc = "generate_bonds"
    /\ i >= count
    /\ pc' = "idle"
    /\ result' = bonds
    /\ prev_result' = result
    /\ calls' = calls + 1
    /\ UNCHANGED <<now, count, base_date, i, locals, bonds, prev_count>>
    /\ UNCHANGED <<histVars, curveVars, otherVars>>

-----------------------------------------------------------------------------
(* MockDataGenerator.generate_historical_data *)

\* the isin arguments of the model
IsinSamples == { Isin(0), Isin(7) }

\* DateRange with the range starting at end (start=end) instead of ending there
DateRange_FromStart(end, periods) == [ j \in 1..periods |-> end + (j - 1) ]

\* pd.date_range(end=end, periods=periods, freq='D'): periods dates one day
\* apart, the last one equal to end
DateRange(end, periods) == [ j \in 1..periods |-> end - (periods - j) ]

\* HistPrices with the independent noise generate_bonds adds to its price
HistPrices_WithNoise(by) ==
    UNION { RoundSet(100 * Scale - (by - 3 * Scale) * 5 + n, 2) :
                n \in { 0 - 2 * Scale, 0, 2 * Scale } }

\* round(100 - (base_yield - 3) * 5, 2)
HistPrices(by) == RoundSet(100 * Scale - (by - 3 * Scale) * 5, 2)

\* the dicts appended for one date, given the walk values after the increment
HistPoints(isin_arg, date, by, bs) ==
    { [ date |-> date, yield_value |-> yv, spread |-> bs, price |-> p ] :
        yv \in RoundSet(by, 3), p \in HistPrices(by) }

\* def generate_historical_data(isin, days): dates, base_yield = 3.5, base_spread = 50, data = []
generate_historical_data_call(maxDays) ==
    /\ pc = "idle"
    /\ \E s \in IsinSamples : isin' = s
    /\ \E n \in 0..maxDays :
        /\ days' = n
        /\ dates' = DateRange(now, n)
    /\ base_yield' = (7 * Scale) \div 2
    /\ base_spread' = 50
    /\ data' = <<>>
    /\ k' = 0
    /\ pc' = "generate_historical_data"
    /\ UNCHANGED <<now, calls, bondVars, curveVars, otherVars>>

\* The draws <<yield_change, spread_change>> of one iteration: the yield
\* increment over [-0.05, 0.05] with no spread increment, and the spread
\* increment over -2..2 with no yield increment.
WalkDraws ==
    { <<yc, 0>> : yc \in Grid(0 - Scale \div 20, Scale \div 20, WalkSteps) }
    \cup { <<0, sc>> : sc \in (0 - 2)..2 }

\* both draws at the low end of their ranges, and both at the high end
ExtremeDraws == { <<0 - Scale \div 20, 0 - 2>>, <<Scale \div 20, 2>> }

\* the extreme draws that carry on in the direction the walk has taken
TrendDraws == { d \in ExtremeDraws : d[2] * (base_spread - 50) >= 0 }

\* generate_historical_data_step with the spread kept at zero or above
generate_historical_data_step_Clamped(draws) ==
    /\ pc = "generate_historical_data"
    /\ k < Len(dates)
    /\ \E d \in draws :
        LET yield_change == d[1]
            spread_change == d[2]
            clamped == IF base_spread + spread_change < 0 THEN 0
                       ELSE base_spread + spread_change
        IN  /\ base_yield' = base_yield + yield_change
            /\ base_spread' = clamped
            /\ \E point \in HistPoints(isin, dates[k + 1], base_yield', base_spread') :
                data' = Append(data, point)
    /\ k' = k + 1
    /\ UNCHANGED <<pc, now, calls, isin, days, dates, bondVars, curveVars, otherVars>>

\* generate_historical_data_step with the point appended before the increment
generate_historical_data_step_AppendFirst(draws) ==
    /\ pc = "generate_historical_data"
    /\ k < Len(dates)
    /\ \E d \in draws :
        /\ base_yield' = base_yield + d[1]
        /\ base_spread' = base_spread + d[2]
        /\ \E point \in HistPoints(isin, dates[k + 1], base_yield, base_spread) :
            data' = Append(data, point)
    /\ k' = k + 1
    /\ UNCHANGED <<pc, now, calls, isin, days, dates, bondVars, curveVars, otherVars>>

\* one iteration of "for date in dates": the two draws, the walk, the append
generate_historical_data_step(draws) ==
    /\ pc = "generate_historical_data"
    /\ k < Len(dates)
    /\ \E d \in draws :
        LET yield_change == d[1]
            spread_change == d[2]
        IN  /\ base_yield' = base_yield + yield_change
            /\ base_spread' = base_spread + spread_change
            /\ \E point \in HistPoints(isin, dates[k + 1], base_yield', base_spread') :
                data' = Append(data, point)
    /\ k' = k + 1
    /\ UNCHANGED <<pc, now, calls, isin, days, dates, bondVars, curveVars, otherVars>>

\* dates is exhausted: return pd.DataFrame(data)
generate_historical_data_return ==
    /\ pc = "generate_historical_data"
    /\ k >= Len(dates)
    /\ pc' = "idle"
    /\ calls' = calls + 1
    /\ UNCHANGED <<now, histVars, bondVars, curveVars, otherVars>>

-----------------------------------------------------------------------------
(* AnalyticsEngine.generate_yield_curve *)

\* tenors = [0.25, 0.5, 1, 2, 3, 5, 7, 10, 15, 20, 30]
TENORS ==
    << Scale \div 4, Scale \div 2, 1 * Scale, 2 * Scale, 3 * Scale, 5 * Scale,
       7 * Scale, 10 * Scale, 15 * Scale, 20 * Scale, 30 * Scale >>

\* OTHER_RATES with a short end above the USD table
OTHER_RATES_High == <<36, 37, 39, 30, 31, 32, 33, 34, 35, 36, 37>>

\* base_rates of the two branches, times 10
USD_RATES == <<35, 37, 39, 40, 41, 42, 43, 44, 45, 46, 47>>
OTHER_RATES == <<25, 27, 29, 30, 31, 32, 33, 34, 35, 36, 37>>

\* BaseRates with the currency compared ignoring case
BaseRates_CaseInsensitive(cur) ==
    LET tenths == IF Upper(cur) = <<"U", "S", "D">> THEN USD_RATES ELSE OTHER_RATES
    IN  [ j \in 1..Len(tenths) |-> tenths[j] * (Scale \div 10) ]

\* if currency == 'USD': ... else: ...
BaseRates(cur) ==
    LET tenths == IF cur = <<"U", "S", "D">> THEN USD_RATES ELSE OTHER_RATES
    IN  [ j \in 1..Len(tenths) |-> tenths[j] * (Scale \div 10) ]

\* all sequences whose j-th element is drawn from the j-th set
RECURSIVE SeqsOver(_)
SeqsOver(sets) ==
    IF sets = <<>> THEN { <<>> }
    ELSE { <<h>> \o t : h \in Head(sets), t \in SeqsOver(Tail(sets)) }

\* Curves with the base rates taken in reverse order
Curves_Reversed(cur, noise) ==
    LET base == BaseRates(cur)
    IN  { [ tenors |-> TENORS, yields |-> ys ] :
            ys \in SeqsOver([ j \in 1..Len(base) |->
                        RoundSet(base[Len(base) + 1 - j] + noise[j], 3) ]) }

\* the dicts generate_yield_curve can return for the noise sequence: one noise
\* per base rate, each sum rounded to 3 decimals
Curves(cur, noise) ==
    LET base == BaseRates(cur)
    IN  { [ tenors |-> TENORS, yields |-> ys ] :
            ys \in SeqsOver([ j \in 1..Len(base) |-> RoundSet(base[j] + noise[j], 3) ]) }

\* the currency arguments of the model
CurrencySamples ==
    { <<"U", "S", "D">>, <<"E", "U", "R">>, <<"X", "Y", "Z">>, <<"u", "s", "d">>,
      <<"U", "S", "D", " ">>, <<>> }

\* the noise sequences of the model: one tenor's noise varied against the
\* noise of all the others
CurveNoises ==
    { [ j \in 1..Len(TENORS) |-> IF j = t THEN a ELSE b ] :
        t \in 1..Len(TENORS),
        a \in Grid(0 - Scale \div 10, Scale \div 10, NoiseSteps),
        b \in Grid(0 - Scale \div 10, Scale \div 10, NoiseSteps) }

\* def generate_yield_curve(currency): the whole function
generate_yield_curve ==
    /\ pc = "idle"
    /\ \E cur \in CurrencySamples : \E noise \in CurveNoises :
        /\ currency' = cur
        /\ base_rates' = BaseRates(cur)
        /\ curve' \in Curves(cur, noise)
    /\ calls' = calls + 1
    /\ UNCHANGED <<pc, now, bondVars, histVars, otherVars>>

-----------------------------------------------------------------------------
(* AnalyticsEngine.calculate_spread_change *)

\* calculate_spread_change returning the size of the difference
calculate_spread_change_Magnitude(cur, hist) ==
    IF cur < hist THEN hist - cur ELSE cur - hist

\* return current_spread - historical_spread
calculate_spread_change(cur, hist) == cur - hist

\* the spreads passed as arguments: basis points around zero, and 80, 100, 130
SpreadSamples == ((0 - MaxSpread)..MaxSpread) \cup { 80, 100, 130 }

\* one call of calculate_spread_change
calculate_spread_change_call ==
    /\ pc = "idle"
    /\ \E cur \in SpreadSamples : \E hist \in SpreadSamples :
        /\ current_spread' = cur
        /\ historical_spread' = hist
        /\ returned_change' = calculate_spread_change(cur, hist)
    /\ calls' = calls + 1
    /\ UNCHANGED <<pc, now, bondVars, histVars, curveVars, dbVars, streamVars, exportVars>>

-----------------------------------------------------------------------------
(* The bonds table (DatabaseManager) and the /api/bonds handler get_bonds *)

\* generate_bonds(20) in get_bonds
BATCH_SIZE == 20

\* the columns the INSERT of get_bonds names
INSERT_COLUMNS ==
    { "isin", "ticker", "coupon", "maturity", "yield_value", "spread", "duration",
      "rating", "sector", "currency", "price", "issue_size" }

\* the row the INSERT writes for a Bond: the twelve named columns, and
\* last_updated by its default CURRENT_TIMESTAMP
Row(bond, ts) ==
    [ c \in INSERT_COLUMNS \cup { "last_updated" } |->
        IF c = "last_updated" THEN ts ELSE bond[c] ]

\* the table with no rows
EmptyTable == [ x \in {} |-> {} ]

\* INSERT that leaves the row of an isin already in the table as it is
InsertOrReplace_Ignore(tbl, row) ==
    [ x \in DOMAIN tbl \cup { row.isin } |->
        IF x \in DOMAIN tbl THEN tbl[x] ELSE row ]

\* INSERT OR REPLACE INTO bonds, isin being the PRIMARY KEY
InsertOrReplace(tbl, row) ==
    [ x \in DOMAIN tbl \cup { row.isin } |->
        IF x = row.isin THEN row ELSE tbl[x] ]

\* the draws of the batches of the model: one draw per batch, shared by its
\* records, and no rounding of it a tie
BatchDraws ==
    { MID_DRAWS, HIGH_DRAWS, [LOW_DRAWS EXCEPT !.duration_noise = Scale \div 8] }

\* the draws of the batches of concurrent requests
ConcurrentDraws == { MID_DRAWS, HIGH_DRAWS }

\* the lists generate_bonds(cnt) can return at base_date bd when every
\* iteration makes the draws d
Batches(cnt, bd, d) ==
    SeqsOver([ a \in 1..cnt |-> BondsFor(a - 1, bd, d) ])

\* Batches(BATCH_SIZE, bd, d) for every base_date and draw of the model,
\* computed once
BATCHES ==
    [ bd \in NowSamples |-> [ d \in BatchDraws |-> Batches(BATCH_SIZE, bd, d) ] ]

\* the worker threads of the server
Workers == 1..NumWorkers

\* responses: none yet, jsonify({'bonds': [...]}), and the error response of
\* an unhandled exception
NoResponse == [ status |-> 0, bonds |-> <<>> ]
OkResponse(batch) == [ status |-> 200, bonds |-> batch ]
ErrorResponse == [ status |-> 500, bonds |-> <<>> ]

\* a worker with no request in hand
IdleRequest ==
    [ pc |-> "idle", bonds |-> <<>>, j |-> 0, response |-> NoResponse,
      table_at_start |-> EmptyTable ]

\* get_bonds: bonds = MockDataGenerator.generate_bonds(20), and the with
\* statement entered: get_db() connects
get_bonds_generate(t, draws, maxStarted) ==
    /\ req[t].pc = "idle"
    /\ started < maxStarted
    /\ started' = started + 1
    /\ \E d \in draws : \E batch \in BATCHES[now][d] :
        req' = [req EXCEPT ![t] =
                  [ pc |-> "insert", bonds |-> batch, j |-> 0,
                    response |-> NoResponse, table_at_start |-> table ]]
    /\ UNCHANGED <<table, writer, pending>>
    /\ UNCHANGED <<pc, now, calls, bondVars, histVars, curveVars, spreadVars, streamVars, exportVars>>

\* get_bonds_insert with every INSERT committed on its own
get_bonds_insert_Autocommit(t) ==
    /\ req[t].pc = "insert"
    /\ req[t].j < Len(req[t].bonds)
    /\ table' = InsertOrReplace(table, Row(req[t].bonds[req[t].j + 1], now))
    /\ req' = [req EXCEPT ![t].j = @ + 1,
                          ![t].pc = IF req[t].j + 1 = Len(req[t].bonds)
                                    THEN "commit" ELSE "insert"]
    /\ writer' = t
    /\ pending' = table'
    /\ UNCHANGED started
    /\ UNCHANGED <<pc, now, calls, bondVars, histVars, curveVars, spreadVars, streamVars, exportVars>>

\* one iteration of "for bond in bonds": conn.execute(INSERT OR REPLACE ...).
\* The first INSERT opens the connection's transaction and takes the write
\* lock of the database file; no other connection can write until it is over.
get_bonds_insert(t) ==
    /\ req[t].pc = "insert"
    /\ req[t].j < Len(req[t].bonds)
    /\ writer \in { 0, t }
    /\ pending' = InsertOrReplace(IF writer = t THEN pending ELSE table,
                                  Row(req[t].bonds[req[t].j + 1], now))
    /\ writer' = t
    /\ req' = [req EXCEPT ![t].j = @ + 1,
                          ![t].pc = IF req[t].j + 1 = Len(req[t].bonds)
                                    THEN "commit" ELSE "insert"]
    /\ UNCHANGED <<table, started>>
    /\ UNCHANGED <<pc, now, calls, bondVars, histVars, curveVars, spreadVars, streamVars, exportVars>>

\* conn.commit(): the transaction's rows become the table, at once
get_bonds_commit(t) ==
    /\ req[t].pc = "commit"
    /\ writer = t
    /\ table' = pending
    /\ writer' = 0
    /\ pending' = EmptyTable
    /\ req' = [req EXCEPT ![t].pc = "return"]
    /\ UNCHANGED started
    /\ UNCHANGED <<pc, now, calls, bondVars, histVars, curveVars, spreadVars, streamVars, exportVars>>

\* the with statement left (conn.close()), return jsonify({'bonds': [...]})
get_bonds_return(t) ==
    /\ req[t].pc = "return"
    /\ req' = [req EXCEPT ![t].pc = "idle", ![t].response = OkResponse(req[t].bonds),
                          ![t].bonds = <<>>, ![t].j = 0]
    /\ UNCHANGED <<table, writer, pending, started>>
    /\ UNCHANGED <<pc, now, calls, bondVars, histVars, curveVars, spreadVars, streamVars, exportVars>>

\* get_bonds_fail with close() committing what the transaction has written
get_bonds_fail_Commits(t) ==
    /\ req[t].pc \in { "insert", "commit" }
    /\ table' = IF writer = t THEN pending ELSE table
    /\ writer' = IF writer = t THEN 0 ELSE writer
    /\ pending' = IF writer = t THEN EmptyTable ELSE pending
    /\ req' = [req EXCEPT ![t].pc = "idle", ![t].response = ErrorResponse,
                          ![t].bonds = <<>>, ![t].j = 0]
    /\ UNCHANGED started
    /\ UNCHANGED <<pc, now, calls, bondVars, histVars, curveVars, spreadVars, streamVars, exportVars>>

\* conn.execute or conn.commit raises (disk full, I/O error, database is
\* locked): get_db's finally closes the connection, which drops its
\* uncommitted transaction, and the exception leaves get_bonds: the request
\* is answered with the server's error response
get_bonds_fail(t) ==
    /\ req[t].pc \in { "insert", "commit" }
    /\ writer' = IF writer = t THEN 0 ELSE writer
    /\ pending' = IF writer = t THEN EmptyTable ELSE pending
    /\ req' = [req EXCEPT ![t].pc = "idle", ![t].response = ErrorResponse,
                          ![t].bonds = <<>>, ![t].j = 0]
    /\ UNCHANGED <<table, started>>
    /\ UNCHANGED <<pc, now, calls, bondVars, histVars, curveVars, spreadVars, streamVars, exportVars>>

\* every step of get_bonds in the threads ts, for maxStarted requests
get_bonds(ts, draws, maxStarted) ==
    \E t \in ts :
        \/ get_bonds_generate(t, draws, maxStarted)
        \/ get_bonds_insert(t)
        \/ get_bonds_commit(t)
        \/ get_bonds_return(t)
        \/ get_bonds_fail(t)

-----------------------------------------------------------------------------
(* The /api/stream feed: generate() of stream_updates *)

\* f'XS{n:010d}'
StreamIsin(n) == <<"X", "S">> \o ZFill(Str(n), 10)

\* the update dicts generate() can build at time ts from the draws
\* d = <<random.randint(0, 49), random.uniform(2, 6), random.randint(10, 300)>>
Updates(d, ts) ==
    { [ type      |-> "price_update",
        isin      |-> StreamIsin(d[1]),
        yield     |-> y,
        spread    |-> d[3],
        timestamp |-> ts ] : y \in RoundSet(d[2], 3) }

\* the draws of one update: the integers at the low ends of their ranges with
\* a yield that rounds down to 2.0, and at the high ends with a yield that
\* rounds up to 6.0
StreamDraws == { <<0, 2 * Scale + 4, 10>>, <<49, 6 * Scale - 3, 300>> }

\* whole seconds generate() stays suspended at the yield before the consumer
\* of the response asks for the next update
ConsumerWaits == { 0, 1, 5 }

\* whole seconds by which time.sleep(5) returns late: it suspends the thread
\* for at least the time given
SleepOverruns == { 0, 1 }

\* update = {...}; yield f"data: {json.dumps(update)}\n\n": generate() is
\* suspended at the yield
stream_updates_yield ==
    /\ stream_pc = "update"
    /\ Len(feed) < MaxEmissions
    /\ \E d \in StreamDraws : \E update \in Updates(d, clock) :
        feed' = Append(feed, update)
    /\ stream_pc' = "yielded"
    /\ UNCHANGED <<clock, sleeps>>
    /\ UNCHANGED <<pc, now, calls, bondVars, histVars, curveVars, spreadVars, dbVars, exportVars>>

\* the consumer of the response asks for the next update: generate() resumes
\* after the yield
stream_updates_next ==
    /\ stream_pc = "yielded"
    /\ \E wait \in ConsumerWaits : clock' = clock + wait
    /\ stream_pc' = "sleep"
    /\ UNCHANGED <<feed, sleeps>>
    /\ UNCHANGED <<pc, now, calls, bondVars, histVars, curveVars, spreadVars, dbVars, exportVars>>

\* the consumer closes the response (the client has left): GeneratorExit is
\* raised at the yield and generate() ends
stream_updates_close ==
    /\ stream_pc = "yielded"
    /\ stream_pc' = "closed"
    /\ UNCHANGED <<clock, feed, sleeps>>
    /\ UNCHANGED <<pc, now, calls, bondVars, histVars, curveVars, spreadVars, dbVars, exportVars>>

\* time.sleep(5) returning after one second
stream_updates_sleep_Short ==
    /\ stream_pc = "sleep"
    /\ clock' = clock + 1
    /\ sleeps' = sleeps + 1
    /\ stream_pc' = "update"
    /\ UNCHANGED feed
    /\ UNCHANGED <<pc, now, calls, bondVars, histVars, curveVars, spreadVars, dbVars, exportVars>>

\* time.sleep(5), and back to the top of "while True"
stream_updates_sleep ==
    /\ stream_pc = "sleep"
    /\ \E over \in SleepOverruns : clock' = clock + 5 + over
    /\ sleeps' = sleeps + 1
    /\ stream_pc' = "update"
    /\ UNCHANGED feed
    /\ UNCHANGED <<pc, now, calls, bondVars, histVars, curveVars, spreadVars, dbVars, exportVars>>

-----------------------------------------------------------------------------
(* The /api/export/bonds handler export_bonds *)

\* fieldnames of the csv.DictWriter
FIELDNAMES ==
    << "isin", "ticker", "sector", "rating", "maturity", "yield_value", "spread",
       "duration", "price" >>

\* DictWriter._dict_to_list: the keys of rowdict that are not fieldnames;
\* extrasaction is 'raise', the default
WrongFields(rowdict) == DOMAIN rowdict \ Range(FIELDNAMES)

\* DictWriter._dict_to_list: the values of rowdict in the order of fieldnames,
\* restval '' for a fieldname that is not a key. These are the values handed to
\* the underlying csv writer; the text it makes of them is not modelled.
dict_to_list(rowdict) ==
    [ c \in 1..Len(FIELDNAMES) |->
        IF FIELDNAMES[c] \in DOMAIN rowdict THEN rowdict[FIELDNAMES[c]] ELSE <<>> ]

\* responses of export_bonds: none yet, make_response(output.getvalue()) with
\* the rows handed to the writer as its body, and the error response of an
\* unhandled exception
NoExportResponse == [ status |-> 0, body |-> <<>> ]
ExportResponse(body) == [ status |-> 200, body |-> body ]
ExportError == [ status |-> 500, body |-> <<>> ]

\* no export request received yet
IdleExport ==
    [ pc |-> "idle", bonds |-> <<>>, j |-> 0, output |-> <<>>,
      response |-> NoExportResponse ]

\* export_bonds: bonds = MockDataGenerator.generate_bonds(20), the DictWriter
\* made, writer.writeheader()
export_bonds_generate ==
    /\ export.pc = "idle"
    /\ export.response.status = 0
    /\ \E d \in BatchDraws : \E batch \in BATCHES[now][d] :
        export' = [ pc |-> "rows", bonds |-> batch, j |-> 0,
                    output |-> << FIELDNAMES >>, response |-> NoExportResponse ]
    /\ UNCHANGED <<pc, now, calls, bondVars, histVars, curveVars, spreadVars, dbVars,
                   streamVars>>

\* one iteration of "for bond in bonds": writer.writerow(asdict(bond)), which
\* raises ValueError when the dict has a key outside fieldnames; after the
\* last row the response is made from output
export_bonds_writerow ==
    /\ export.pc = "rows"
    /\ export.j < Len(export.bonds)
    /\ LET rowdict == export.bonds[export.j + 1]
           written == Append(export.output, dict_to_list(rowdict))
       IN  export' =
             IF WrongFields(rowdict) # {}
             THEN [export EXCEPT !.pc = "done", !.response = ExportError]
             ELSE IF export.j + 1 < Len(export.bonds)
             THEN [export EXCEPT !.j = @ + 1, !.output = written]
             ELSE [export EXCEPT !.j = @ + 1, !.output = written, !.pc = "done",
                                 !.response = ExportResponse(written)]
    /\ UNCHANGED <<pc, now, calls, bondVars, histVars, curveVars, spreadVars, dbVars,
                   streamVars>>

-----------------------------------------------------------------------------
(* Specifications *)

Init ==
    /\ pc = "idle"
    /\ now \in NowSamples
    /\ calls = 0
    /\ count = NoValue
    /\ base_date = NoValue
    /\ i = 0
    /\ locals = NoValue
    /\ bonds = <<>>
    /\ result = NoValue
    /\ prev_result = NoValue
    /\ prev_count = NoValue
    /\ isin = NoValue
    /\ days = 0
    /\ dates = <<>>
    /\ k = 0
    /\ base_yield = 0
    /\ base_spread = 0
    /\ data = <<>>
    /\ currency = NoValue
    /\ base_rates = NoValue
    /\ curve = NoValue
    /\ current_spread = 0
    /\ historical_spread = 0
    /\ returned_change = 0
    /\ table = EmptyTable
    /\ writer = 0
    /\ pending = EmptyTable
    /\ req = [ t \in Workers |-> IdleRequest ]
    /\ started = 0
    /\ stream_pc = "update"
    /\ sleeps = 0
    /\ clock = 0
    /\ feed = <<>>
    /\ export = IdleExport

\* generate_bonds called twice in a row, counts up to MaxCount
Next ==
    \/ (calls < 2 /\ generate_bonds_call(MaxCount))
    \/ generate_bonds_step(CoarseDraws)
    \/ generate_bonds_return

Spec == Init /\ [][Next]_vars

\* generate_bonds called once, counts up to MaxBatch, draws over their ranges
NextRecord ==
    \/ (calls = 0 /\ generate_bonds_call(MaxBatch))
    \/ generate_bonds_step(FineDraws)
    \/ generate_bonds_return

SpecRecord == Init /\ [][NextRecord]_vars

\* generate_historical_data called once
NextHist ==
    \/ (calls = 0 /\ generate_historical_data_call(MaxDays))
    \/ generate_historical_data_step(WalkDraws)
    \/ generate_historical_data_return

SpecHist == Init /\ [][NextHist]_vars

\* generate_historical_data called once, for up to MaxWalkDays days, every
\* draw at one end of its range and the walk never turning
NextWalk ==
    \/ (calls = 0 /\ generate_historical_data_call(MaxWalkDays))
    \/ generate_historical_data_step(TrendDraws)
    \/ generate_historical_data_return

SpecWalk == Init /\ [][NextWalk]_vars

\* generate_yield_curve called once
NextCurve == calls = 0 /\ generate_yield_curve

SpecCurve == Init /\ [][NextCurve]_vars

\* generate_bonds called once, then generate_yield_curve called once
NextYields ==
    \/ (calls = 0 /\ generate_bonds_call(MaxBatch))
    \/ generate_bonds_step(YieldNoiseDraws)
    \/ generate_bonds_return
    \/ (calls = 1 /\ generate_yield_curve)

SpecYields == Init /\ [][NextYields]_vars

\* get_bonds requests served one after the other by one thread
NextStore == get_bonds({ 1 }, BatchDraws, MaxRequests)

SpecStore == Init /\ [][NextStore]_vars

\* get_bonds requests served by the threads of the server at the same time,
\* as many requests as there are threads
NextConcurrent == get_bonds(Workers, ConcurrentDraws, NumWorkers)

SpecConcurrent == Init /\ [][NextConcurrent]_vars

\* one /api/stream feed: the consumer of the response sooner or later asks
\* generate() for the next update or closes it, and time.sleep returns
NextStream ==
    \/ stream_updates_yield
    \/ stream_updates_next
    \/ stream_updates_sleep
    \/ stream_updates_close

SpecStream == Init /\ [][NextStream]_vars /\ WF_vars(NextStream)

\* get_bonds requests served one after the other by one thread, and one
\* export_bonds request served by another
NextExport ==
    \/ get_bonds({ 1 }, BatchDraws, MaxRequests)
    \/ export_bonds_generate
    \/ export_bonds_writerow

SpecExport == Init /\ [][NextExport]_vars

\* calculate_spread_change called once
NextSpread == calls = 0 /\ calculate_spread_change_call

SpecSpread == Init /\ [][NextSpread]_vars

-----------------------------------------------------------------------------
(* Properties *)

Abs(x) == IF x < 0 THEN 0 - x ELSE x

\* the fields of a Bond, as the data model lists them
BondFields ==
    { "isin", "ticker", "coupon", "maturity", "yield_value", "spread", "duration",
      "rating", "sector", "currency", "price", "issue_size" }

\* C1: for every count >= 0 generate_bonds(count) returns exactly count records,
\* each carrying the twelve Bond fields, and two consecutive calls with the same
\* count return lists of the same length whose records carry the same fields.
C1_LengthAndShape ==
    (pc = "idle" /\ calls >= 1) =>
        /\ (count >= 0) => (Len(result) = count)
        /\ \A a \in 1..Len(result) : DOMAIN result[a] = BondFields
        /\ (calls >= 2 /\ prev_count = count) =>
              /\ Len(prev_result) = Len(result)
              /\ \A a \in 1..Len(result) : \A b \in 1..Len(prev_result) :
                    DOMAIN result[a] = DOMAIN prev_result[b]

\* C1 witness: two consecutive calls with the same count of at least 2 have
\* returned, with different values
C1_Witness ==
    /\ pc = "idle"
    /\ calls >= 2
    /\ prev_count = count
    /\ count >= 2
    /\ Len(result) = count
    /\ result # prev_result

\* the ranges C2 states for one record, with the duration range given
RecordInRanges(b, duration_lo, duration_hi) ==
    /\ b.yield_value >= 0
    /\ b.spread \in 10..300
    /\ b.duration >= duration_lo
    /\ b.duration <= duration_hi
    /\ b.rating \in Range(RATINGS)
    /\ b.sector \in Range(SECTORS)
    /\ b.currency \in Range(CURRENCIES)
    /\ b.issue_size \in { 500, 1000, 2000, 5000 }

\* C2: every record has yield_value >= 0, spread in [10, 300],
\* duration in [0.85 * 1 - 1, 0.85 * 30 + 1] = [-0.15, 26.5], rating, sector and
\* currency in their lists and issue_size in {5e8, 1e9, 2e9, 5e9}.
C2_Original ==
    \A j \in 1..Len(bonds) :
        RecordInRanges(bonds[j], (85 * Scale) \div 100 - Scale,
                       30 * ((85 * Scale) \div 100) + Scale)

\* C3: every record satisfies the field invariants of the data model:
\* coupon >= 0, spread >= 0 and duration >= 0.
C3_FieldInvariants ==
    \A j \in 1..Len(bonds) :
        /\ bonds[j].coupon >= 0
        /\ bonds[j].spread >= 0
        /\ bonds[j].duration >= 0

\* the premium as C4 words it
ClaimedPremium(rating) ==
    IF Contains(<<"B", "B", "B">>, rating) THEN 15 * (Scale \div 10)
    ELSE IF Contains(<<"A">>, rating) /\ ~Contains(<<"B", "B", "B">>, rating)
         THEN 5 * (Scale \div 10)
    ELSE 0

\* C4: the yield_value of the record an iteration builds is
\* round2(2.0 + 0.1 * maturity_years + premium(rating) + noise) for a noise in
\* [-0.5, 0.5], that is a multiple of 0.01 within 0.5 of the sum without noise;
\* and the premium does not decrease along RATINGS.
C4_YieldFormula ==
    /\ (i > 0 /\ Len(bonds) = i) =>
          LET b    == bonds[i]
              base == 2 * Scale + locals.maturity_years * (Scale \div 10)
                        + ClaimedPremium(locals.rating)
          IN  /\ b.rating = locals.rating
              /\ b.yield_value = locals.yield_value
              /\ b.yield_value % (Scale \div 100) = 0
              /\ Abs(b.yield_value - base) <= Scale \div 2
    /\ (i = 0) =>
          \A a \in 1..Len(RATINGS) : \A b \in a..Len(RATINGS) :
              Premium(RATINGS[a]) <= Premium(RATINGS[b])

\* C4 witness: a BBB+ record of the longest maturity with the largest noise
C4_Witness ==
    /\ i > 0
    /\ Len(bonds) = i
    /\ locals.rating = <<"B", "B", "B", "+">>
    /\ locals.maturity_years = 30
    /\ bonds[i].yield_value = 2 * Scale + 3 * Scale + (3 * Scale) \div 2 + Scale \div 2

\* C5: for days >= 1 generate_historical_data returns exactly days points, the
\* dates one calendar day apart and increasing, the last one "now"; and the
\* point an iteration appends is the same whatever isin was passed.
C5_DatesOfSeries ==
    /\ (pc = "idle" /\ calls >= 1 /\ days >= 1) =>
          /\ Len(data) = days
          /\ \A j \in 1..(Len(data) - 1) : data[j + 1].date = data[j].date + 1
          /\ data[Len(data)].date = now
    /\ (pc = "generate_historical_data" /\ k > 0) =>
          \A s \in IsinSamples :
              data[k] \in HistPoints(s, now - (days - k), base_yield, base_spread)

\* C5 witness: a call with days = 3 and the second isin has returned
C5_Witness ==
    /\ pc = "idle"
    /\ calls >= 1
    /\ isin = Isin(7)
    /\ days = 3
    /\ Len(data) = 3
    /\ data[1].date = now - 2

\* the price C6 states for an emitted yield: 100 - (yield_value - 3) * 5
ClaimedPrice(yield_value) == 100 * Scale - (yield_value - 3 * Scale) * 5

\* C6 as stated: the emitted price of every point equals
\* 100 - (yield_value - 3) * 5 of that point's emitted yield_value exactly.
C6_Original ==
    \A j \in 1..Len(data) : data[j].price = ClaimedPrice(data[j].yield_value)

\* C6 amended: the emitted price is 100 - (y - 3) * 5 rounded to 2 decimals,
\* where y is the unrounded walk yield whose rounding to 3 decimals is the
\* emitted yield_value; it carries no other noise, so it is a multiple of 0.01
\* within 0.005 of 100 - (yield_value - 3) * 5.
C6_PriceFromWalk ==
    /\ (pc = "generate_historical_data" /\ k > 0) =>
          /\ Abs(data[k].price - ClaimedPrice(base_yield)) <= Scale \div 200
          /\ Abs(data[k].yield_value - base_yield) <= Scale \div 2000
    /\ \A j \in 1..Len(data) :
          /\ data[j].price % (Scale \div 100) = 0
          /\ Abs(data[j].price - ClaimedPrice(data[j].yield_value)) <= Scale \div 200

\* C6 witness: a point whose price differs from 100 - (yield_value - 3) * 5
C6_Witness ==
    /\ pc = "generate_historical_data"
    /\ k > 0
    /\ data[k].price # ClaimedPrice(data[k].yield_value)
    /\ data[k].yield_value # base_yield

\* C7: the walk starts at yield 3.5 and spread 50 and every iteration first
\* adds a yield increment in [-0.05, 0.05] and a spread increment in -2..2 to
\* the walk and then appends the point of the new walk values, so the k-th
\* spread is in [50 - 2k, 50 + 2k] and the k-th yield within 0.05 k of 3.5.
C7_IncrementBeforeAppend ==
    [][ /\ (pc = "idle" /\ pc' = "generate_historical_data") =>
              (base_yield' = (35 * Scale) \div 10 /\ base_spread' = 50 /\ data' = <<>>)
        /\ (k' = k + 1) =>
              /\ Abs(base_yield' - base_yield) <= (5 * Scale) \div 100
              /\ (base_spread' - base_spread) \in (0 - 2)..2
              /\ Len(data') = k'
              /\ SubSeq(data', 1, k) = data
              /\ data'[k'].spread = base_spread'
              /\ data'[k'].yield_value \in RoundSet(base_yield', 3)
              /\ data'[k'].spread \in (50 - 2 * k')..(50 + 2 * k')
              /\ Abs(data'[k'].yield_value - (35 * Scale) \div 10) <= k' * ((5 * Scale) \div 100)
      ]_vars

\* C7 witness: the first point carries an increment, and the third point is at
\* the upper end of its spread range
C7_Witness ==
    /\ Len(data) = 3
    /\ data[1].spread = 52
    /\ data[3].spread = 56

\* the tenors as C8 lists them
ClaimedTenors ==
    << Scale \div 4, Scale \div 2, Scale, 2 * Scale, 3 * Scale, 5 * Scale, 7 * Scale,
       10 * Scale, 15 * Scale, 20 * Scale, 30 * Scale >>

\* C8: for every currency the returned tenors are
\* [0.25, 0.5, 1, 2, 3, 5, 7, 10, 15, 20, 30], strictly ascending, and yields
\* has the same length 11, its i-th element within 0.1 of the i-th base rate.
C8_CurveShape ==
    (calls >= 1) =>
        /\ curve.tenors = ClaimedTenors
        /\ Len(curve.tenors) = 11
        /\ \A j \in 1..(Len(curve.tenors) - 1) : curve.tenors[j] < curve.tenors[j + 1]
        /\ Len(curve.yields) = 11
        /\ \A j \in 1..Len(curve.yields) :
              Abs(curve.yields[j] - base_rates[j]) <= Scale \div 10

\* C8 witness: a curve where one tenor's noise is +0.1 and another's is -0.1
C8_Witness ==
    /\ calls >= 1
    /\ \E a \in 1..11 : \E b \in 1..11 :
          /\ curve.yields[a] - base_rates[a] = Scale \div 10
          /\ curve.yields[b] - base_rates[b] = 0 - Scale \div 10

\* the two base tables as the source lists them, high-rate and low-rate
HighRates == [ j \in 1..11 |-> USD_RATES[j] * (Scale \div 10) ]
LowRates == [ j \in 1..11 |-> OTHER_RATES[j] * (Scale \div 10) ]

\* C9: the high-rate table is used if and only if currency is exactly "USD";
\* every other string, "XYZ" and "usd" included, gets a curve of the low-rate
\* table; and every currency gets a curve.
C9_ExactUsdOnly ==
    /\ (calls >= 1) =>
          /\ (currency = <<"U", "S", "D">>) <=> (base_rates = HighRates)
          /\ (currency # <<"U", "S", "D">>) <=> (base_rates = LowRates)
          /\ \A j \in 1..11 :
                Abs(curve.yields[j]
                    - (IF currency = <<"U", "S", "D">> THEN HighRates[j] ELSE LowRates[j]))
                  <= Scale \div 10
    /\ (calls = 0) =>
          \A cur \in CurrencySamples : \A noise \in CurveNoises : Curves(cur, noise) # {}

\* C9 witness: "usd" has been answered with a low-rate curve
C9_Witness ==
    /\ calls >= 1
    /\ currency = <<"u", "s", "d">>
    /\ base_rates = LowRates
    /\ curve.yields[1] <= (26 * Scale) \div 10

\* C10: at every tenor the base rate used for "USD" is at least the base rate
\* the call used, whatever its currency.
C10_UsdAtLeastOthers ==
    (calls >= 1) =>
        /\ Len(base_rates) = 11
        /\ \A j \in 1..11 : BaseRates(<<"U", "S", "D">>)[j] >= base_rates[j]

\* C10 witness: a non-USD call whose base rates are all below the USD ones
C10_Witness ==
    /\ calls >= 1
    /\ currency = <<"E", "U", "R">>
    /\ \A j \in 1..11 : BaseRates(<<"U", "S", "D">>)[j] > base_rates[j]


\* C11: calculate_spread_change(current, historical) returns the integer
\* current - historical for all integer arguments: 30 for (130, 100), -20 for
\* (80, 100); it is antisymmetric in its arguments and 0 when they are equal.
C11_SpreadChange ==
    (calls >= 1) =>
        /\ returned_change \in Int
        /\ returned_change = current_spread - historical_spread
        /\ returned_change = 0 - calculate_spread_change(historical_spread, current_spread)
        /\ (current_spread = historical_spread) => (returned_change = 0)
        /\ (current_spread = 130 /\ historical_spread = 100) => (returned_change = 30)
        /\ (current_spread = 80 /\ historical_spread = 100) => (returned_change = 0 - 20)

\* C11 witness: the call with a tightening spread, (80, 100), has returned -20
C11_Witness ==
    /\ calls >= 1
    /\ current_spread = 80
    /\ historical_spread = 100
    /\ returned_change = 0 - 20

\* C12: every yield_value produced by generate_bonds is a multiple of 0.01, and
\* every yield produced by generate_yield_curve is a multiple of 0.001.
C12_YieldGranularity ==
    /\ \A a \in 1..Len(bonds) : bonds[a].yield_value % (Scale \div 100) = 0
    /\ (calls >= 1) =>
          \A a \in 1..Len(result) : result[a].yield_value % (Scale \div 100) = 0
    /\ (calls >= 2) =>
          \A j \in 1..Len(curve.yields) : curve.yields[j] % (Scale \div 1000) = 0

\* C12 witness: generate_bonds has returned a yield_value that its noise left
\* off the 0.01 grid before rounding (4.0 - 0.1667 returned as 3.83), and
\* generate_yield_curve a yield with a non-zero third decimal
C12_Witness ==
    /\ calls >= 2
    /\ Len(result) >= 1
    /\ result[1].yield_value = 383 * (Scale \div 100)
    /\ \E j \in 1..Len(curve.yields) : curve.yields[j] % (Scale \div 100) # 0

\* C13: a negative count passed to generate_bonds is rejected with an
\* input-validation error: the call is not answered by returning an empty list.
C13_NegativeCountRejected ==
    ~(pc = "idle" /\ calls >= 1 /\ count < 0 /\ result = <<>>)

\* the isins XS0000000000 .. XS0000000019
BatchIsins == { Isin(a) : a \in 0..(BATCH_SIZE - 1) }

\* the table holds one row per record of the batch and no other row, each row
\* with the fields of its record
HoldsBatch(tbl, batch) ==
    /\ DOMAIN tbl = { batch[a].isin : a \in 1..Len(batch) }
    /\ \A a \in 1..Len(batch) :
          \A c \in INSERT_COLUMNS : tbl[batch[a].isin][c] = batch[a][c]

\* C14: starting from an empty bonds table, after any sequence of successful
\* get_bonds requests the table holds exactly one row per isin XS0000000000 ..
\* XS0000000019, 20 rows and never more, and each row has the fields of the
\* record with that isin in the batch of the most recent request.
C14_TableHoldsLastBatch ==
    /\ DOMAIN table \subseteq BatchIsins
    /\ Cardinality(DOMAIN table) <= 20
    /\ (req[1].pc = "idle" /\ req[1].response.status = 200) =>
          /\ DOMAIN table = BatchIsins
          /\ Cardinality(DOMAIN table) = 20
          /\ HoldsBatch(table, req[1].response.bonds)

\* C14 witness: a request has succeeded on a table that held the 20 rows of an
\* earlier batch with other values
C14_Witness ==
    /\ started >= 2
    /\ req[1].pc = "idle"
    /\ req[1].response.status = 200
    /\ DOMAIN req[1].table_at_start = BatchIsins
    /\ req[1].table_at_start # table

\* C15: if a persistence error occurs while get_bonds is writing a batch, on
\* any of the 20 inserts or on the commit, the bonds table is left as it was
\* before the request, with no part of the batch applied, and the caller gets an
\* error response and not a success response carrying the bonds.
C15_FailureLeavesTable ==
    /\ (req[1].pc \in { "insert", "commit" }) => (table = req[1].table_at_start)
    /\ (req[1].pc = "idle" /\ req[1].response.status # 0) =>
          \/ /\ req[1].response.status = 500
             /\ req[1].response.bonds = <<>>
             /\ table = req[1].table_at_start
          \/ /\ req[1].response.status = 200
             /\ HoldsBatch(table, req[1].response.bonds)

\* C15 witness: a request has failed on a table that held the rows of an
\* earlier batch
C15_Witness ==
    /\ req[1].pc = "idle"
    /\ req[1].response.status = 500
    /\ DOMAIN req[1].table_at_start = BatchIsins
    /\ table = req[1].table_at_start

\* the shape and the ranges C16 states for one update
UpdateInRanges(u) ==
    /\ DOMAIN u = { "type", "isin", "yield", "spread", "timestamp" }
    /\ u.type = "price_update"
    /\ \E n \in 0..49 : u.isin = <<"X", "S">> \o ZFill(Str(n), 10)
    /\ Len(u.isin) = 12
    /\ u.yield >= 2 * Scale
    /\ u.yield <= 6 * Scale
    /\ u.spread \in 10..300

\* the feed so far: every update in its ranges and stamped at least 5 seconds
\* after the one before it, and exactly one time.sleep(5) completed per update
\* emitted before the one generate() is about to build
FeedInOrder ==
    /\ stream_pc \in { "update", "yielded", "sleep", "closed" }
    /\ \A n \in 1..Len(feed) : UpdateInRanges(feed[n])
    /\ \A n \in 2..Len(feed) : feed[n].timestamp >= feed[n - 1].timestamp + 5
    /\ sleeps = Len(feed) - (IF stream_pc = "update" THEN 0 ELSE 1)
    /\ clock >= 5 * sleeps

\* C16: the stream_updates feed, once started, emits updates without end for
\* as long as its consumer keeps reading, with exactly one 5-second wait
\* (one time.sleep(5)) between two consecutive updates and none skipped or
\* batched; every update has type 'price_update', an isin XS followed by a
\* 10-digit zero-padded index in 0..49, a yield in [2, 6], an integer spread in
\* [10, 300] and a timestamp, each sampled for that update.
C16_Feed ==
    /\ []FeedInOrder
    /\ [][Len(feed') <= Len(feed) + 1]_vars
    /\ \A n \in 0..(MaxEmissions - 1) :
          (Len(feed) = n) ~> (Len(feed) = n + 1 \/ stream_pc = "closed")

\* C16 witness: three updates have been emitted, two consecutive ones with
\* different isin, next ones with different yield, the second after a prompt
\* consumer and a punctual sleep, the third six seconds after the second
C16_Witness ==
    /\ Len(feed) >= 3
    /\ feed[1].isin # feed[2].isin
    /\ feed[2].yield # feed[3].yield
    /\ feed[2].timestamp = 5
    /\ feed[3].timestamp = 11
    /\ sleeps = 2

\* "XS" followed by the ten decimal digits of n, most significant first
ClaimedIsin(n) ==
    <<"X", "S">> \o [ p \in 1..10 |-> Digits[((n \div 10^(10 - p)) % 10) + 1] ]

\* the isins of a list of records
IsinsOf(batch) == { batch[a].isin : a \in 1..Len(batch) }

Min(a, b) == IF a < b THEN a ELSE b

\* C17: within one generate_bonds(count) batch the i-th record (i = 0 ..
\* count - 1) has isin "XS" followed by i zero-padded to 10 digits, so the isins
\* of a batch are pairwise distinct; every call restarts the index at zero, so
\* two batches of sizes m and n share exactly min(m, n) isins.
C17_IsinSequence ==
    /\ \A a \in 1..Len(bonds) : bonds[a].isin = ClaimedIsin(a - 1)
    /\ \A a \in 1..Len(bonds) : \A b \in 1..Len(bonds) :
          (a # b) => (bonds[a].isin # bonds[b].isin)
    /\ (pc = "idle" /\ calls >= 1) =>
          /\ \A a \in 1..Len(result) : result[a].isin = ClaimedIsin(a - 1)
          /\ Cardinality(IsinsOf(result)) = Len(result)
    /\ (pc = "idle" /\ calls >= 2) =>
          Cardinality(IsinsOf(result) \cap IsinsOf(prev_result))
              = Min(Len(result), Len(prev_result))

\* C17 witness: two calls have returned batches of sizes 2 and 1, which share
\* the one isin XS0000000000
C17_Witness ==
    /\ pc = "idle"
    /\ calls >= 2
    /\ Len(prev_result) = 2
    /\ Len(result) = 1
    /\ prev_result[2].isin = ClaimedIsin(1)
    /\ IsinsOf(result) \cap IsinsOf(prev_result) = { ClaimedIsin(0) }

\* the number a string of decimal digits writes
DigitValue(c) ==
    IF c = "0" THEN 0 ELSE IF c = "1" THEN 1 ELSE IF c = "2" THEN 2
    ELSE IF c = "3" THEN 3 ELSE IF c = "4" THEN 4 ELSE IF c = "5" THEN 5
    ELSE IF c = "6" THEN 6 ELSE IF c = "7" THEN 7 ELSE IF c = "8" THEN 8 ELSE 9

RECURSIVE ParseInt(_)
ParseInt(s) ==
    IF s = <<>> THEN 0
    ELSE 10 * ParseInt(SubSeq(s, 1, Len(s) - 1)) + DigitValue(s[Len(s)])

\* the day number of a date written YYYY-MM-DD
ParseDate(s) ==
    DaysFromCivil(ParseInt(SubSeq(s, 1, 4)), ParseInt(SubSeq(s, 6, 7)),
                  ParseInt(SubSeq(s, 9, 10)))

\* C18: every record returned by generate_bonds has a maturity date strictly
\* later than the generation time: it is the generation date plus
\* 365 * maturity_years days with maturity_years in 1..30, and the year shown
\* in the record's ticker is the year of that maturity date.
C18_MaturityInFuture ==
    /\ \A a \in 1..Len(bonds) :
          LET b == bonds[a]
              maturity_date == ParseDate(b.maturity)
          IN  /\ Len(b.maturity) = 10
              /\ b.maturity[5] = "-"
              /\ b.maturity[8] = "-"
              /\ maturity_date > base_date
              /\ (maturity_date - base_date) % 365 = 0
              /\ (maturity_date - base_date) \div 365 \in 1..30
              /\ SubSeq(b.ticker, Len(b.ticker) - 4, Len(b.ticker))
                    = <<" ">> \o SubSeq(b.maturity, 1, 4)
    /\ (i > 0 /\ Len(bonds) = i) =>
          /\ locals.maturity_years \in 1..30
          /\ ParseDate(bonds[i].maturity) = base_date + 365 * locals.maturity_years
    /\ (pc = "idle" /\ calls >= 1) => (result = bonds)

\* C18 witness: a one-year bond generated on 2024-02-29 matures 365 days
\* later, on 2025-02-28, and its ticker shows 2025
C18_Witness ==
    /\ pc = "idle"
    /\ calls >= 1
    /\ Len(result) >= 1
    /\ base_date = DaysFromCivil(2024, 2, 29)
    /\ locals.maturity_years = 1
    /\ result[1].maturity = <<"2", "0", "2", "5", "-", "0", "2", "-", "2", "8">>
    /\ SubSeq(result[1].ticker, Len(result[1].ticker) - 3, Len(result[1].ticker))
          = <<"2", "0", "2", "5">>

\* C19: the historical random walk is unclamped: no step of
\* generate_historical_data bounds or reverts yield or spread.  When every
\* draw is the lowest (or every draw the highest) the n-th point carries the
\* spread 50 - 2n (or 50 + 2n) and the yield 3.5 - 0.05n (or 3.5 + 0.05n): a
\* negative spread from the 26th point on, and a spread beyond any bound B
\* for days large enough.
C19_WalkUnclamped ==
    \A n \in 1..Len(data) :
        LET sign == IF data[1].spread > 50 THEN 1 ELSE 0 - 1
        IN  /\ data[n].spread = 50 + sign * 2 * n
            /\ data[n].yield_value = (7 * Scale) \div 2 + sign * n * (Scale \div 20)
            /\ (sign < 0 /\ n >= 26) => (data[n].spread < 0)
            /\ (n = Len(data)) => (base_spread = data[n].spread)

\* C19 witness: generate_historical_data(isin, 26) has returned a series whose
\* 26th spread is negative
C19_Witness ==
    /\ pc = "idle"
    /\ calls >= 1
    /\ days = 26
    /\ Len(data) = 26
    /\ data[25].spread = 0
    /\ data[26].spread = 0 - 2

\* every batch generate_bonds(20) can return in this behaviour
PossibleBatches == UNION { BATCHES[now][d] : d \in BatchDraws }

\* the committed table is empty or holds the rows of one batch, all of them
\* and no row of another batch
CommittedFromOneBatch ==
    \/ table = EmptyTable
    \/ \E batch \in PossibleBatches : HoldsBatch(table, batch)

\* a step that commits leaves the whole batch of its request in the table, and
\* a request answers 200 only after its commit
CommitsWholeBatch ==
    \A t \in Workers :
        /\ (req[t].pc = "commit" /\ req'[t].pc = "return") =>
              HoldsBatch(table', req[t].bonds)
        /\ (req'[t].response.status = 200 /\ req[t].response.status # 200) =>
              (req[t].pc = "return" /\ req'[t].response.bonds = req[t].bonds)
        /\ (table' # table) => (req[t].pc = "commit" \/ req'[t] = req[t])

\* C20: under any interleaving of two or more concurrent get_bonds requests,
\* every committed state of the bonds table holds rows of a single batch only,
\* never a mix of the batches of two requests, and a request that returns
\* successfully has had its whole batch committed; the batch returned may
\* differ from the stored rows when another request commits later.
C20_SingleBatchCommitted ==
    /\ []CommittedFromOneBatch
    /\ [][CommitsWholeBatch]_vars

\* C20 witness: two requests are in hand at the same time, both have
\* committed, and the table holds the batch of the later one: the earlier one
\* is about to return a batch that is not the stored one
C20_Witness ==
    \E t \in Workers : \E u \in Workers \ { t } :
        /\ req[t].pc = "return"
        /\ req[u].pc = "return"
        /\ HoldsBatch(table, req[u].bonds)
        /\ ~HoldsBatch(table, req[t].bonds)

\* C21: export_bonds completes successfully and returns a CSV made of one
\* header row with the nine columns isin, ticker, sector, rating, maturity,
\* yield_value, spread, duration, price, followed by exactly one data row per
\* generated bond (20 rows), each row written from the 12-field dict of its
\* record; the rows are those of the batch the request generated.
C21_ExportReturnsCsv ==
    (export.pc = "done") =>
        /\ export.response.status = 200
        /\ Len(export.response.body) = 1 + 20
        /\ export.response.body[1]
              = << "isin", "ticker", "sector", "rating", "maturity", "yield_value",
                   "spread", "duration", "price" >>
        /\ Len(export.bonds) = 20
        /\ \A a \in 1..20 :
              /\ Len(export.response.body[a + 1]) = 9
              /\ export.response.body[a + 1][1] = export.bonds[a].isin
              /\ export.response.body[a + 1][2] = export.bonds[a].ticker
              /\ export.response.body[a + 1][3] = export.bonds[a].sector
              /\ export.response.body[a + 1][4] = export.bonds[a].rating
              /\ export.response.body[a + 1][5] = export.bonds[a].maturity
====
